---- MODULE Spec2Model ----
(***************************************************************************)
(* Earthquake monitor: the useEarthquakes hook (feed client), the App      *)
(* component's state and its filter (filteredEarthquakes).                 *)
(*                                                                         *)
(* Encoding.  A JavaScript string is a sequence of one-character strings.  *)
(* A nullable value is Null (the empty tuple) or Some(v) (a 1-tuple).      *)
(* Magnitudes are in tenths (6.0 is 60), the slider's 0.5 step is 5.       *)
(***************************************************************************)
EXTENDS Integers, Sequences, FiniteSets, Bags, TLC

VARIABLES
    earthquakes,        \* useEarthquakes: Earthquake[]
    loading,            \* useEarthquakes: boolean
    error,              \* useEarthquakes: string | null
    lastUpdated,        \* useEarthquakes: Date | null
    requests,           \* calls of fetchEarthquakes suspended at an await, in start order
    mounted,            \* the mount effect of useEarthquakes has run
    now,                \* wall clock read by new Date()
    selectedEarthquake, \* App: Earthquake | null
    isModalOpen,        \* App: boolean
    searchTerm,         \* App: string
    minMagnitude,       \* App: number
    activeView,         \* App: 'list' | 'map'
    darkMode,           \* App: boolean
    memo,               \* App: the cell of useMemo, its dependencies and its value
    crashed             \* a render threw: React has unmounted the tree, its state
                        \* setters do nothing any more

hookVars == <<earthquakes, loading, error, lastUpdated>>
uiVars == <<selectedEarthquake, isModalOpen, searchTerm, minMagnitude, activeView, darkMode>>
vars == <<earthquakes, loading, error, lastUpdated, requests, mounted, now,
          selectedEarthquake, isModalOpen, searchTerm, minMagnitude, activeView,
          darkMode, memo, crashed>>

----------------------------------------------------------------------------
(* Bounds *)

\* longest feed batch in the application runs
MaxBatch == 2
\* longest event list the filter is applied to in the filter runs
MaxEvents == 3
\* last value of the wall clock
MaxNow == 1
\* largest magnitude, in tenths, in the runs of the derivation utilities
MaxMagnitude == 95
\* most calls of fetchEarthquakes suspended at a time in the runs of the hook
MaxPending == 2

----------------------------------------------------------------------------
(* Values *)

Null == <<>>
Some(v) == <<v>>

Upper == <<"A","B","C","D","E","F","G","H","I","J","K","L","M",
           "N","O","P","Q","R","S","T","U","V","W","X","Y","Z">>
Lower == <<"a","b","c","d","e","f","g","h","i","j","k","l","m",
           "n","o","p","q","r","s","t","u","v","w","x","y","z">>

TokyoBay == <<"T","o","k","y","o"," ","B","a","y">>
NearTokyo == <<"N","e","a","r"," ","T","o","k","y","o">>
tokyo == <<"t","o","k","y","o">>
TOK == <<"T","O","K">>

Earthquake(id, mag, place, time) ==
    [id |-> id, properties |-> [mag |-> mag, place |-> place, time |-> time]]

E1 == Earthquake("e1", Some(60), Some(TokyoBay), 3)
E2 == Earthquake("e2", Some(20), Some(<<>>), 2)
E3 == Earthquake("e3", Some(45), Some(NearTokyo), 1)
E4 == Earthquake("e4", Some(45), Null, 2)
E5 == Earthquake("e5", Null, Some(TokyoBay), 3)
E6 == Earthquake("e6", Some(-5), Some(NearTokyo), 1)

\* the events a feed batch is drawn from in the filter runs
Events == {E1, E2, E3, E4, E5, E6}
\* the events a feed batch is drawn from in the application runs
FeedEvents == {E1, E2, E5}

\* values typed into the search box
SearchTerms == {<<>>, tokyo, TOK}
\* positions of the magnitude slider (0 to 9 in steps of 0.5), in tenths
MinMagnitudes == {0, 30, 45}
\* every position of the magnitude slider, in tenths
SliderPositions == {5 * k : k \in 0..18}
\* HTTP statuses of the feed's responses
HttpStatuses == {200, 404, 500}

\* feature arrays of at most n events of S, identities unique within a batch
Batches(S, n) ==
    UNION {{f \in [1..k -> S] : \A i, j \in 1..k : i # j => f[i].id # f[j].id} : k \in 0..n}

----------------------------------------------------------------------------
(* String.prototype.toLowerCase, String.prototype.includes, the >= of App.tsx:30 *)

toLowerCaseChar(c) ==
    IF \E i \in 1..Len(Upper) : Upper[i] = c
    THEN Lower[CHOOSE i \in 1..Len(Upper) : Upper[i] = c]
    ELSE c

toLowerCase(s) == [i \in 1..Len(s) |-> toLowerCaseChar(s[i])]

includes(s, sub) ==
    \E i \in 0..(Len(s) - Len(sub)) : SubSeq(s, i + 1, i + Len(sub)) = sub

\* variant: an absent magnitude compares below every threshold
ToNumberAbsentFails(v) == IF v = Null THEN -1 ELSE v[1]

\* ToNumber of a nullable number: null converts to 0
ToNumber(v) == IF v = Null THEN 0 ELSE v[1]

----------------------------------------------------------------------------
(* App.tsx: filteredEarthquakes *)

\* variant: ?? true in place of ?? false
matchesSearchAbsentPasses(earthquake, term) ==
    IF earthquake.properties.place = Null
    THEN TRUE
    ELSE includes(toLowerCase(earthquake.properties.place[1]), toLowerCase(term))

\* variant: the place is not lower-cased
matchesSearchCaseSensitive(earthquake, term) ==
    IF earthquake.properties.place = Null
    THEN FALSE
    ELSE includes(earthquake.properties.place[1], toLowerCase(term))

matchesSearch(earthquake, term) ==
    IF earthquake.properties.place = Null
    THEN FALSE
    ELSE includes(toLowerCase(earthquake.properties.place[1]), toLowerCase(term))

\* variant: > in place of >=
matchesMagnitudeStrict(earthquake, min) ==
    ToNumber(earthquake.properties.mag) > min

\* variant: an absent magnitude passes every threshold
matchesMagnitudeAbsentPasses(earthquake, min) ==
    earthquake.properties.mag = Null \/ ToNumber(earthquake.properties.mag) >= min

\* variant: <= in place of >=
matchesMagnitudeAtMost(earthquake, min) ==
    ToNumber(earthquake.properties.mag) <= min

matchesMagnitude(earthquake, min) ==
    ToNumber(earthquake.properties.mag) >= min

keeps(earthquake, term, min) ==
    matchesSearch(earthquake, term) /\ matchesMagnitude(earthquake, min)

reverse(s) == [i \in 1..Len(s) |-> s[Len(s) + 1 - i]]

\* variant: the survivors come out in reverse order
applyFilterReversed(events, term, min) ==
    reverse(SelectSeq(events, LAMBDA earthquake : keeps(earthquake, term, min)))

\* variant: the first survivor is skipped
applyFilterSkipsFirst(events, term, min) ==
    LET kept == SelectSeq(events, LAMBDA earthquake : keeps(earthquake, term, min))
    IN IF kept = <<>> THEN kept ELSE Tail(kept)

applyFilter(events, term, min) ==
    SelectSeq(events, LAMBDA earthquake : keeps(earthquake, term, min))

\* variant: minMagnitude is missing from the dependency list
useMemoWithoutMinMagnitude(cell, events, term, min) ==
    IF <<events, term>> = <<cell.deps[1], cell.deps[2]>> THEN cell
    ELSE [deps |-> <<events, term, min>>, value |-> applyFilter(events, term, min)]

\* useMemo(() => earthquakes.filter(...), [earthquakes, searchTerm, minMagnitude]):
\* the cell after a render.  The filter runs again when a dependency differs
\* from the one of the previous render; a fetched array is a new object, so
\* that comparing the arrays by content reuses the value only where the
\* filter would return the same list.
useMemo(cell, events, term, min) ==
    IF <<events, term, min>> = cell.deps THEN cell
    ELSE [deps |-> <<events, term, min>>, value |-> applyFilter(events, term, min)]

\* the cell after the first render
firstRender(events, term, min) ==
    [deps |-> <<events, term, min>>, value |-> applyFilter(events, term, min)]

\* the list the views are given
filteredEarthquakes == memo.value

----------------------------------------------------------------------------
(* earthquakeUtils.ts, dateUtils.ts and the marker colors of EarthquakeMap.tsx *)
(* Thresholds are in tenths: 7 is 70, 5.5 is 55, 4 is 40, 2.5 is 25.         *)

getMagnitudeColor(magnitude) ==
    IF ToNumber(magnitude) >= 70 THEN "text-red-600 bg-red-100"
    ELSE IF ToNumber(magnitude) >= 55 THEN "text-orange-600 bg-orange-100"
    ELSE IF ToNumber(magnitude) >= 40 THEN "text-yellow-600 bg-yellow-100"
    ELSE IF ToNumber(magnitude) >= 25 THEN "text-blue-600 bg-blue-100"
    ELSE "text-green-600 bg-green-100"

\* variant: > in place of >=
getMagnitudeLevelStrict(magnitude) ==
    IF ToNumber(magnitude) > 70 THEN "Major"
    ELSE IF ToNumber(magnitude) > 55 THEN "Strong"
    ELSE IF ToNumber(magnitude) > 40 THEN "Moderate"
    ELSE IF ToNumber(magnitude) > 25 THEN "Minor"
    ELSE "Micro"

getMagnitudeLevel(magnitude) ==
    IF ToNumber(magnitude) >= 70 THEN "Major"
    ELSE IF ToNumber(magnitude) >= 55 THEN "Strong"
    ELSE IF ToNumber(magnitude) >= 40 THEN "Moderate"
    ELSE IF ToNumber(magnitude) >= 25 THEN "Minor"
    ELSE "Micro"

\* variant: orange starts at 5, the threshold of the marker's intensity dot
getMarkerColorsFromFive(mag) ==
    IF ToNumber(mag) >= 70 THEN [bg |-> "#dc2626", border |-> "#991b1b", glow |-> "#fca5a5"]
    ELSE IF ToNumber(mag) >= 50 THEN [bg |-> "#ea580c", border |-> "#c2410c", glow |-> "#fed7aa"]
    ELSE IF ToNumber(mag) >= 40 THEN [bg |-> "#ca8a04", border |-> "#a16207", glow |-> "#fde047"]
    ELSE IF ToNumber(mag) >= 25 THEN [bg |-> "#2563eb", border |-> "#1d4ed8", glow |-> "#93c5fd"]
    ELSE [bg |-> "#16a34a", border |-> "#15803d", glow |-> "#86efac"]

getMarkerColors(mag) ==
    IF ToNumber(mag) >= 70 THEN [bg |-> "#dc2626", border |-> "#991b1b", glow |-> "#fca5a5"]
    ELSE IF ToNumber(mag) >= 55 THEN [bg |-> "#ea580c", border |-> "#c2410c", glow |-> "#fed7aa"]
    ELSE IF ToNumber(mag) >= 40 THEN [bg |-> "#ca8a04", border |-> "#a16207", glow |-> "#fde047"]
    ELSE IF ToNumber(mag) >= 25 THEN [bg |-> "#2563eb", border |-> "#1d4ed8", glow |-> "#93c5fd"]
    ELSE [bg |-> "#16a34a", border |-> "#15803d", glow |-> "#86efac"]

MathMax(a, b) == IF a >= b THEN a ELSE b
MathMin(a, b) == IF a <= b THEN a ELSE b

\* Sizes are in tenths of a pixel: a magnitude in tenths times 8 is the
\* source's magnitude * 8 in tenths, 24 is 240, 60 is 600 and 8 is 80.
baseSize(magnitude) == MathMax(240, MathMin(600, ToNumber(magnitude) * 8))

pulseSize(magnitude) == baseSize(magnitude) + 80

\* the DivIcon: its size, its anchor and the colors of its disc
createAdvancedMagnitudeMarker(magnitude) ==
    [iconSize |-> <<pulseSize(magnitude), pulseSize(magnitude)>>,
     iconAnchor |-> <<pulseSize(magnitude) \div 2, pulseSize(magnitude) \div 2>>,
     colors |-> getMarkerColors(magnitude)]

\* variant: the plural s is added above 1 only
getTimeAgoPluralAboveOne(timestamp) ==
    LET diff == now - timestamp
        minutes == diff \div (1000 * 60)
        hours == diff \div (1000 * 60 * 60)
        days == diff \div (1000 * 60 * 60 * 24)
    IN IF minutes < 60
       THEN ToString(minutes) \o " minute" \o (IF minutes > 1 THEN "s" ELSE "") \o " ago"
       ELSE IF hours < 24
       THEN ToString(hours) \o " hour" \o (IF hours > 1 THEN "s" ELSE "") \o " ago"
       ELSE ToString(days) \o " day" \o (IF days > 1 THEN "s" ELSE "") \o " ago"

\* Date.now() is the wall clock; Math.floor of a quotient is \div
getTimeAgo(timestamp) ==
    LET diff == now - timestamp
        minutes == diff \div (1000 * 60)
        hours == diff \div (1000 * 60 * 60)
        days == diff \div (1000 * 60 * 60 * 24)
    IN IF minutes < 60
       THEN ToString(minutes) \o " minute" \o (IF minutes # 1 THEN "s" ELSE "") \o " ago"
       ELSE IF hours < 24
       THEN ToString(hours) \o " hour" \o (IF hours # 1 THEN "s" ELSE "") \o " ago"
       ELSE ToString(days) \o " day" \o (IF days # 1 THEN "s" ELSE "") \o " ago"

----------------------------------------------------------------------------
(* useEarthquakes.ts: the sort of fetchEarthquakes *)

\* variant: oldest first
compareFnAscending(a, b) == a.properties.time - b.properties.time

compareFn(a, b) == b.properties.time - a.properties.time

\* x placed into the sorted array s behind every element that does not
\* compare after it (Array.prototype.sort is stable)
insertSorted(s, x) ==
    LET before == {j \in 1..Len(s) : compareFn(s[j], x) > 0}
        k == IF before = {} THEN Len(s) + 1
             ELSE CHOOSE j \in before : \A l \in before : j <= l
    IN SubSeq(s, 1, k - 1) \o <<x>> \o SubSeq(s, k, Len(s))

RECURSIVE sortFrom(_, _)
sortFrom(features, sorted) ==
    IF features = <<>> THEN sorted
    ELSE sortFrom(Tail(features), insertSorted(sorted, Head(features)))

sortedEarthquakes(features) == sortFrom(features, <<>>)

----------------------------------------------------------------------------
(* Rendering *)

\* the statistics cards
statsShown == ~loading /\ error = Null

\* the LoadingSpinner
loadingShown == loading

\* the ErrorMessage
errorShown == error # Null

\* the retry control inside ErrorMessage, which calls onRetry
ErrorMessageRetry == errorShown

\* variant: the map view does not look at error
mapShownDespiteError ==
    ~loading /\ activeView = "map" /\ Len(filteredEarthquakes) > 0

mapShown ==
    ~loading /\ error = Null /\ activeView = "map" /\ Len(filteredEarthquakes) > 0

listShown ==
    ~loading /\ error = Null /\ activeView = "list" /\ Len(filteredEarthquakes) > 0

\* the 'No earthquakes match your filters' notice
noMatchShown ==
    ~loading /\ error = Null /\ Len(filteredEarthquakes) = 0 /\ Len(earthquakes) > 0

\* the 'No recent earthquakes' notice
noEarthquakesShown ==
    ~loading /\ error = Null /\ Len(earthquakes) = 0

\* EarthquakeModal renders its dialog
EarthquakeModal == selectedEarthquake # Null /\ isModalOpen

\* createAdvancedMagnitudeMarker calls magnitude.toFixed(1): a null magnitude
\* throws during render, and no error boundary catches it
renderThrows ==
    mapShown /\ \E i \in 1..Len(filteredEarthquakes) :
                    filteredEarthquakes[i].properties.mag = Null

\* the content panels on screen; once a render has thrown the tree is
\* unmounted and nothing is on screen
contentPanels ==
    IF crashed THEN {}
    ELSE {panel \in {"loading", "error", "noMatch", "noEarthquakes", "map", "list"} :
             \/ panel = "loading" /\ loadingShown
             \/ panel = "error" /\ errorShown
             \/ panel = "noMatch" /\ noMatchShown
             \/ panel = "noEarthquakes" /\ noEarthquakesShown
             \/ panel = "map" /\ mapShown
             \/ panel = "list" /\ listShown}

\* the render that follows a step's state updates
render ==
    /\ memo' = useMemo(memo, earthquakes', searchTerm', minMagnitude')
    /\ crashed' = renderThrows'

----------------------------------------------------------------------------
(* Messages of the errors fetchEarthquakes catches *)

httpErrorMessage(status) == "HTTP error! status: " \o ToString(status)
transportErrorMessage == "Failed to fetch"
parseErrorMessage == "Unexpected token < in JSON at position 0"

NoBody == [parsable |-> FALSE, features |-> <<>>]
Body(features) == [parsable |-> TRUE, features |-> features]

removeAt(s, i) == SubSeq(s, 1, i - 1) \o SubSeq(s, i + 1, Len(s))

----------------------------------------------------------------------------
(* State after construction *)

Init ==
    /\ earthquakes = <<>>
    /\ loading = TRUE
    /\ error = Null
    /\ lastUpdated = Null
    /\ requests = <<>>
    /\ mounted = FALSE
    /\ now = 0
    /\ selectedEarthquake = Null
    /\ isModalOpen = FALSE
    /\ searchTerm = <<>>
    /\ minMagnitude = 0
    /\ activeView = "map"
    /\ darkMode = FALSE
    /\ memo = firstRender(earthquakes, searchTerm, minMagnitude)
    /\ crashed = FALSE

----------------------------------------------------------------------------
(* useEarthquakes.ts *)

\* variant: setError(null) is missing
fetchEarthquakesKeepsError ==
    /\ loading' = TRUE
    /\ requests' = Append(requests, [pc |-> "fetch", body |-> NoBody])
    /\ UNCHANGED <<earthquakes, error, lastUpdated>>

\* fetchEarthquakes up to its first await
fetchEarthquakes ==
    /\ loading' = TRUE
    /\ error' = Null
    /\ requests' = Append(requests, [pc |-> "fetch", body |-> NoBody])
    /\ UNCHANGED <<earthquakes, lastUpdated>>

\* variant: the catch block also empties the collection
catchClearsCollection(i, message) ==
    /\ error' = Some(message)
    /\ loading' = FALSE
    /\ requests' = removeAt(requests, i)
    /\ earthquakes' = <<>>
    /\ UNCHANGED lastUpdated

\* variant: the catch block also stamps lastUpdated
catchStampsLastUpdated(i, message) ==
    /\ error' = Some(message)
    /\ loading' = FALSE
    /\ requests' = removeAt(requests, i)
    /\ lastUpdated' = Some(now)
    /\ UNCHANGED earthquakes

\* variant: the finally block is missing
catchKeepsLoading(i, message) ==
    /\ error' = Some(message)
    /\ requests' = removeAt(requests, i)
    /\ UNCHANGED <<earthquakes, loading, lastUpdated>>

\* the catch and finally blocks
catch(i, message) ==
    /\ error' = Some(message)
    /\ loading' = FALSE
    /\ requests' = removeAt(requests, i)
    /\ UNCHANGED <<earthquakes, lastUpdated>>

\* useEffect(() => { fetchEarthquakes(); }, [])
Mount ==
    /\ ~crashed /\ ~mounted
    /\ mounted' = TRUE
    /\ fetchEarthquakes
    /\ UNCHANGED <<now, uiVars>>
    /\ render

\* await fetch(...) resolves with a response of some status
FetchResolve ==
    \E i \in 1..Len(requests), status \in HttpStatuses :
        /\ ~crashed
        /\ requests[i].pc = "fetch"
        /\ IF status >= 200 /\ status <= 299
           THEN \E body \in {NoBody} \cup {Body(f) : f \in Batches(FeedEvents, MaxBatch)} :
                    /\ requests' = [requests EXCEPT ![i] = [pc |-> "json", body |-> body]]
                    /\ UNCHANGED hookVars
           ELSE catch(i, httpErrorMessage(status))
        /\ UNCHANGED <<mounted, now, uiVars>>
        /\ render

\* await fetch(...) rejects: transport failure
FetchReject ==
    \E i \in 1..Len(requests) :
        /\ ~crashed
        /\ requests[i].pc = "fetch"
        /\ catch(i, transportErrorMessage)
        /\ UNCHANGED <<mounted, now, uiVars>>
        /\ render

\* variant: a successful fetch closes the detail view
JsonResolveClearsSelection ==
    \E i \in 1..Len(requests) :
        /\ ~crashed
        /\ requests[i].pc = "json"
        /\ requests[i].body.parsable
        /\ earthquakes' = sortedEarthquakes(requests[i].body.features)
        /\ lastUpdated' = Some(now)
        /\ loading' = FALSE
        /\ requests' = removeAt(requests, i)
        /\ selectedEarthquake' = Null
        /\ isModalOpen' = FALSE
        /\ UNCHANGED <<error, mounted, now, searchTerm, minMagnitude, activeView, darkMode>>
        /\ render

\* variant: the new batch is merged into the stored collection
JsonResolveMerges ==
    \E i \in 1..Len(requests) :
        /\ ~crashed
        /\ requests[i].pc = "json"
        /\ requests[i].body.parsable
        /\ earthquakes' = sortedEarthquakes(earthquakes \o requests[i].body.features)
        /\ lastUpdated' = Some(now)
        /\ loading' = FALSE
        /\ requests' = removeAt(requests, i)
        /\ UNCHANGED <<error, mounted, now, uiVars>>
        /\ render

\* await response.json() resolves: sort, setEarthquakes, setLastUpdated, finally
JsonResolve ==
    \E i \in 1..Len(requests) :
        /\ ~crashed
        /\ requests[i].pc = "json"
        /\ requests[i].body.parsable
        /\ earthquakes' = sortedEarthquakes(requests[i].body.features)
        /\ lastUpdated' = Some(now)
        /\ loading' = FALSE
        /\ requests' = removeAt(requests, i)
        /\ UNCHANGED <<error, mounted, now, uiVars>>
        /\ render

\* await response.json() rejects: the body is no JSON document
JsonReject ==
    \E i \in 1..Len(requests) :
        /\ ~crashed
        /\ requests[i].pc = "json"
        /\ ~requests[i].body.parsable
        /\ catch(i, parseErrorMessage)
        /\ UNCHANGED <<mounted, now, uiVars>>
        /\ render

----------------------------------------------------------------------------
(* App.tsx *)

\* variant: the Refresh button is not disabled while loading
ClickRefreshUnguarded ==
    /\ ~crashed /\ mounted
    /\ fetchEarthquakes
    /\ UNCHANGED <<mounted, now, uiVars>>
    /\ render

\* the Refresh button of the header, disabled while loading
ClickRefresh ==
    /\ ~crashed /\ mounted
    /\ ~loading
    /\ fetchEarthquakes
    /\ UNCHANGED <<mounted, now, uiVars>>
    /\ render

\* the retry action of ErrorMessage, rendered while error is set
ClickRetry ==
    /\ ~crashed /\ mounted
    /\ ErrorMessageRetry
    /\ fetchEarthquakes
    /\ UNCHANGED <<mounted, now, uiVars>>
    /\ render

\* variant: typing in the search box also refetches the feed
setSearchTermRefetches ==
    \E term \in SearchTerms :
        /\ ~crashed /\ mounted
        /\ searchTerm' = term
        /\ fetchEarthquakes
        /\ UNCHANGED <<mounted, now, selectedEarthquake, isModalOpen, minMagnitude,
                       activeView, darkMode>>
        /\ render

setSearchTerm ==
    \E term \in SearchTerms :
        /\ ~crashed /\ mounted
        /\ searchTerm' = term
        /\ UNCHANGED <<hookVars, requests, mounted, now, selectedEarthquake,
                       isModalOpen, minMagnitude, activeView, darkMode>>
        /\ render

setMinMagnitude ==
    \E magnitude \in MinMagnitudes :
        /\ ~crashed /\ mounted
        /\ minMagnitude' = magnitude
        /\ UNCHANGED <<hookVars, requests, mounted, now, selectedEarthquake,
                       isModalOpen, searchTerm, activeView, darkMode>>
        /\ render

setActiveView ==
    \E view \in {"map", "list"} :
        /\ ~crashed /\ mounted
        /\ activeView' = view
        /\ UNCHANGED <<hookVars, requests, mounted, now, selectedEarthquake,
                       isModalOpen, searchTerm, minMagnitude, darkMode>>
        /\ render

toggleDarkMode ==
    /\ ~crashed /\ mounted
    /\ darkMode' = ~darkMode
    /\ UNCHANGED <<hookVars, requests, mounted, now, selectedEarthquake,
                   isModalOpen, searchTerm, minMagnitude, activeView>>
    /\ render

\* a click on a card, a marker or a popup's details button
handleEarthquakeClick ==
    \E i \in 1..Len(filteredEarthquakes) :
        /\ ~crashed /\ mounted
        /\ mapShown \/ listShown
        /\ selectedEarthquake' = Some(filteredEarthquakes[i])
        /\ isModalOpen' = TRUE
        /\ UNCHANGED <<hookVars, requests, mounted, now, searchTerm, minMagnitude,
                       activeView, darkMode>>
        /\ render

\* variant: the selected event is kept when the modal closes
handleCloseModalKeepsSelection ==
    /\ ~crashed /\ mounted
    /\ selectedEarthquake # Null /\ isModalOpen
    /\ isModalOpen' = FALSE
    /\ UNCHANGED <<hookVars, requests, mounted, now, selectedEarthquake, searchTerm,
                   minMagnitude, activeView, darkMode>>
    /\ render

\* the backdrop or the close button of the modal
handleCloseModal ==
    /\ ~crashed /\ mounted
    /\ selectedEarthquake # Null /\ isModalOpen
    /\ isModalOpen' = FALSE
    /\ selectedEarthquake' = Null
    /\ UNCHANGED <<hookVars, requests, mounted, now, searchTerm, minMagnitude,
                   activeView, darkMode>>
    /\ render

\* variant: a timer refetches as time passes
TickPolls ==
    /\ now < MaxNow
    /\ ~crashed /\ mounted
    /\ now' = now + 1
    /\ fetchEarthquakes
    /\ UNCHANGED <<mounted, uiVars>>
    /\ render

\* time passes
Tick ==
    /\ now < MaxNow
    /\ now' = now + 1
    /\ UNCHANGED <<hookVars, requests, mounted, uiVars, memo, crashed>>

Next ==
    \/ Mount
    \/ FetchResolve
    \/ FetchReject
    \/ JsonResolve
    \/ JsonReject
    \/ ClickRefresh
    \/ ClickRetry
    \/ setSearchTerm
    \/ setMinMagnitude
    \/ setActiveView
    \/ toggleDarkMode
    \/ handleEarthquakeClick
    \/ handleCloseModal
    \/ Tick

Spec == Init /\ [][Next]_vars

\* The life cycle of the fetches: the steps of the hook, the two controls
\* that start a fetch, the view toggle and the clock.  The effect of the first
\* render runs, and every request that was started settles: the promise of
\* fetch and the promise of response.json() each resolve or reject.
LiveNext ==
    \/ Mount
    \/ FetchResolve
    \/ FetchReject
    \/ JsonResolve
    \/ JsonReject
    \/ ClickRefresh
    \/ ClickRetry
    \/ setActiveView
    \/ Tick

LiveSpec ==
    /\ Init /\ [][LiveNext]_vars
    /\ WF_vars(Mount)
    /\ WF_vars(FetchResolve \/ FetchReject)
    /\ WF_vars(JsonResolve \/ JsonReject)

----------------------------------------------------------------------------
(* The hook under any caller: refetch, the fetchEarthquakes the hook        *)
(* returns, is called whenever the caller likes, also while a call is       *)
(* suspended.                                                               *)

\* variant: a new call aborts the suspended ones
refetchCancelsPending ==
    /\ ~crashed /\ mounted
    /\ Len(requests) < MaxPending
    /\ loading' = TRUE
    /\ error' = Null
    /\ requests' = <<[pc |-> "fetch", body |-> NoBody]>>
    /\ UNCHANGED <<earthquakes, lastUpdated, mounted, now, uiVars>>
    /\ render

refetch ==
    /\ ~crashed /\ mounted
    /\ Len(requests) < MaxPending
    /\ fetchEarthquakes
    /\ UNCHANGED <<mounted, now, uiVars>>
    /\ render

HookNext ==
    \/ Mount
    \/ refetch
    \/ FetchResolve
    \/ FetchReject
    \/ JsonResolve
    \/ JsonReject

HookSpec == Init /\ [][HookNext]_vars

----------------------------------------------------------------------------
(* The filter on its own: the list view after a successful load of any     *)
(* batch, the user editing the search box and the slider.                  *)

FilterInit ==
    /\ earthquakes \in {sortedEarthquakes(f) : f \in Batches(Events, MaxEvents)}
    /\ loading = FALSE
    /\ error = Null
    /\ lastUpdated = Some(0)
    /\ requests = <<>>
    /\ mounted = TRUE
    /\ now = 0
    /\ selectedEarthquake = Null
    /\ isModalOpen = FALSE
    /\ searchTerm \in SearchTerms
    /\ minMagnitude \in MinMagnitudes
    /\ activeView = "list"
    /\ darkMode = FALSE
    /\ memo = firstRender(earthquakes, searchTerm, minMagnitude)
    /\ crashed = FALSE

FilterNext ==
    \/ setSearchTerm
    \/ setMinMagnitude

FilterSpec == FilterInit /\ [][FilterNext]_vars

----------------------------------------------------------------------------
(* The derivation utilities on their own: one event of any magnitude and    *)
(* age is loaded and shown; the user switches views and theme and opens and *)
(* closes the detail view.  Times are in milliseconds.                      *)

\* magnitudes of the event, in tenths, and the absent magnitude
Magnitudes == {Null} \cup {Some(m) : m \in -10..MaxMagnitude}

\* times of the event
Timestamps == {0, 1500}

\* ages of the event when it is displayed
Ages == {-60000, 0, 59999, 60000, 90000, 119999, 120000, 3599999, 3600000,
         7199999, 7200000, 86399999, 86400000, 172799999, 172800000, 259200000}

DerivationInit ==
    /\ \E mag \in Magnitudes, time \in Timestamps :
           earthquakes = <<Earthquake("e1", mag, Some(TokyoBay), time)>>
    /\ \E age \in Ages : now = earthquakes[1].properties.time + age
    /\ loading = FALSE
    /\ error = Null
    /\ lastUpdated = Some(now)
    /\ requests = <<>>
    /\ mounted = TRUE
    /\ selectedEarthquake = Null
    /\ isModalOpen = FALSE
    /\ searchTerm = <<>>
    /\ minMagnitude = 0
    /\ activeView = "list"
    /\ darkMode = FALSE
    /\ memo = firstRender(earthquakes, searchTerm, minMagnitude)
    /\ crashed = FALSE

DerivationNext ==
    \/ setActiveView
    \/ toggleDarkMode
    \/ handleEarthquakeClick
    \/ handleCloseModal

DerivationSpec == DerivationInit /\ [][DerivationNext]_vars

----------------------------------------------------------------------------
(* Vocabulary of the properties *)

elements(s) == {s[i] : i \in 1..Len(s)}

\* s contains t at some offset, characters compared after case folding
containsIgnoringCase(s, t) ==
    \E off \in 0..(Len(s) - Len(t)) :
        \A k \in 1..Len(t) : toLowerCaseChar(s[off + k]) = toLowerCaseChar(t[k])

\* the magnitude m, absent counted as 0, reaches the threshold
reaches(m, threshold) ==
    \/ m = Null /\ 0 >= threshold
    \/ m # Null /\ m[1] >= threshold

timeDescending(s) ==
    \A i \in 1..(Len(s) - 1) : s[i].properties.time >= s[i + 1].properties.time

\* a is b with some elements left out
isSubsequence(a, b) ==
    \E f \in [1..Len(a) -> 1..Len(b)] :
        /\ \A i \in 1..Len(a) : a[i] = b[f[i]]
        /\ \A i \in 1..(Len(a) - 1) : f[i] < f[i + 1]

\* how often each element occurs in s
multiset(s) == [e \in elements(s) |-> Cardinality({i \in 1..Len(s) : s[i] = e})]

\* the step completes the i-th suspended call of fetchEarthquakes
settles(i) == i \in 1..Len(requests) /\ requests' = removeAt(requests, i)

----------------------------------------------------------------------------
(* Properties of the filter, checked under FilterSpec *)

\* C1: an event is in the filtered list iff it is in the collection, its place
\* is present and contains the search term ignoring case, and its magnitude
\* is >= the minimum magnitude; with a non-empty search term no event with an
\* absent place is returned.
C1_FilterKeepsExactlyMatches ==
    /\ \A e \in Events :
           e \in elements(filteredEarthquakes) <=>
               /\ e \in elements(earthquakes)
               /\ e.properties.place # Null
               /\ containsIgnoringCase(e.properties.place[1], searchTerm)
               /\ reaches(e.properties.mag, minMagnitude)
    /\ searchTerm # <<>> =>
           \A e \in elements(filteredEarthquakes) : e.properties.place # Null

C1_Witness ==
    /\ searchTerm = TOK
    /\ minMagnitude = 30
    /\ E4 \in elements(earthquakes)
    /\ E5 \in elements(earthquakes)
    /\ filteredEarthquakes = <<E1>>

\* C2 as stated: of the events (6.0, "Tokyo Bay"), (2.0, ""), (4.5, "Near
\* Tokyo"), the filter with search term "tokyo" and minimum 3 keeps exactly
\* the 4.5 event.
C2_Original ==
    (earthquakes = <<E1, E2, E3>> /\ searchTerm = tokyo /\ minMagnitude = 30)
        => filteredEarthquakes = <<E3>>

\* C2 amended: the filter keeps the 6.0 "Tokyo Bay" event and the 4.5 "Near
\* Tokyo" event, in that order, and drops only the 2.0 event.
C2_ScenarioKeepsBothTokyoEvents ==
    (earthquakes = <<E1, E2, E3>> /\ searchTerm = tokyo /\ minMagnitude = 30)
        => filteredEarthquakes = <<E1, E3>>

C2_Witness ==
    /\ earthquakes = <<E1, E2, E3>>
    /\ searchTerm = tokyo
    /\ minMagnitude = 30
    /\ Len(filteredEarthquakes) = 2

\* C3 as stated: with an empty search term and minimum 0 the filter returns
\* every event of the collection, in order.
C3_Original ==
    (searchTerm = <<>> /\ minMagnitude = 0) => filteredEarthquakes = earthquakes

\* C3 amended: with an empty search term and minimum 0 the filter returns, in
\* order, every event of a collection whose events all have a present
\* (possibly empty) place and a magnitude that is absent or non-negative.
C3_VacuousFilterIsIdentity ==
    (/\ searchTerm = <<>>
     /\ minMagnitude = 0
     /\ \A e \in elements(earthquakes) :
            /\ e.properties.place # Null
            /\ e.properties.mag = Null \/ e.properties.mag[1] >= 0)
        => filteredEarthquakes = earthquakes

C3_Witness ==
    /\ searchTerm = <<>>
    /\ minMagnitude = 0
    /\ earthquakes = <<E1, E5, E2>>
    /\ filteredEarthquakes = earthquakes

\* C4: for every minimum magnitude > 0 and every search term, no event with an
\* absent magnitude is in the filtered list.
C4_AbsentMagnitudeFailsPositiveMinimum ==
    minMagnitude > 0 =>
        \A e \in elements(filteredEarthquakes) : e.properties.mag # Null

C4_Witness ==
    /\ minMagnitude > 0
    /\ searchTerm = tokyo
    /\ E5 \in elements(earthquakes)
    /\ E1 \in elements(filteredEarthquakes)

\* C5: with minimum magnitude 0, every event of the collection whose magnitude
\* is absent or non-negative and whose place matches the search is kept.
C5_ZeroMinimumAdmitsNonNegativeAndAbsent ==
    minMagnitude = 0 =>
        \A e \in elements(earthquakes) :
            (/\ e.properties.mag = Null \/ e.properties.mag[1] >= 0
             /\ e.properties.place # Null
             /\ containsIgnoringCase(e.properties.place[1], searchTerm))
                => e \in elements(filteredEarthquakes)

C5_Witness ==
    /\ minMagnitude = 0
    /\ searchTerm = tokyo
    /\ E5 \in elements(filteredEarthquakes)
    /\ E6 \in elements(earthquakes)
    /\ E6 \notin elements(filteredEarthquakes)

\* C6: the filtered list is a subsequence of the collection, and is ordered by
\* time descending like the collection.
C6_FilterIsStable ==
    /\ isSubsequence(filteredEarthquakes, earthquakes)
    /\ timeDescending(earthquakes) => timeDescending(filteredEarthquakes)

C6_Witness ==
    /\ Len(earthquakes) = MaxEvents
    /\ Len(filteredEarthquakes) = 2
    /\ filteredEarthquakes[1].properties.time > filteredEarthquakes[2].properties.time
    /\ earthquakes[2] \notin elements(filteredEarthquakes)

\* C7: filtering the filtered list again with the same search term and
\* minimum magnitude returns it unchanged.
C7_FilterIsIdempotent ==
    applyFilter(filteredEarthquakes, searchTerm, minMagnitude) = filteredEarthquakes

C7_Witness ==
    /\ Len(filteredEarthquakes) >= 2
    /\ Len(filteredEarthquakes) < Len(earthquakes)
    /\ searchTerm # <<>>
    /\ minMagnitude > 0

----------------------------------------------------------------------------
(* Properties of the feed client, checked under Spec *)

\* C8: in every reachable state the stored collection is ordered by time
\* descending.
C8_CollectionTimeDescending == timeDescending(earthquakes)

C8_Witness ==
    /\ Len(earthquakes) = 2
    /\ earthquakes[1].properties.time > earthquakes[2].properties.time
    /\ error # Null

\* C9: a successful fetch replaces the collection by the events of its
\* response: the same multiset, whatever the collection held before.
C9_SuccessReplacesCollection ==
    [][\A i \in 1..Len(requests) :
           (requests[i].pc = "json" /\ requests[i].body.parsable /\ settles(i))
               => multiset(earthquakes') = multiset(requests[i].body.features)]_vars

\* a second response has arrived over a collection it shares nothing with
C9_Witness ==
    /\ earthquakes # <<>>
    /\ lastUpdated # Null
    /\ \E i \in 1..Len(requests) :
           /\ requests[i].pc = "json"
           /\ requests[i].body.parsable
           /\ requests[i].body.features # <<>>
           /\ elements(requests[i].body.features) \cap elements(earthquakes) = {}

\* C10: a fetch that ends on a non-success status, a transport failure or an
\* unreadable body leaves error non-null; a fetch that ends successfully
\* leaves error = null; every fetch ends in one of the two ways.
C10_FetchOutcomeSetsError ==
    [][\A i \in 1..Len(requests) :
           settles(i) =>
               IF requests[i].pc = "json" /\ requests[i].body.parsable
               THEN error' = Null /\ lastUpdated' # Null /\ ~loading'
               ELSE error' # Null /\ ~loading'
                    /\ earthquakes' = earthquakes /\ lastUpdated' = lastUpdated]_vars

\* a fetch has failed after an earlier one succeeded
C10_Witness ==
    /\ error = Some(httpErrorMessage(500))
    /\ lastUpdated # Null
    /\ ~loading
    /\ requests = <<>>

----------------------------------------------------------------------------
(* Properties of the application, checked under Spec *)

\* the step completes the i-th call of fetchEarthquakes with a parsed response
succeeds(i) == settles(i) /\ requests[i].pc = "json" /\ requests[i].body.parsable

\* the step completes the i-th call of fetchEarthquakes in its catch block
fails(i) == settles(i) /\ ~(requests[i].pc = "json" /\ requests[i].body.parsable)

identities(s) == {s[i].id : i \in 1..Len(s)}

\* C11: a failed fetch leaves the collection as it was: the one of the last
\* successful fetch, or empty.
C11_FailureKeepsCollection ==
    /\ [][\A i \in 1..Len(requests) : fails(i) => earthquakes' = earthquakes]_vars
    /\ [][earthquakes' # earthquakes => \E i \in 1..Len(requests) : succeeds(i)]_vars
    /\ [](lastUpdated = Null => earthquakes = <<>>)

C11_Witness ==
    /\ error # Null
    /\ earthquakes # <<>>
    /\ requests = <<>>

\* C12: while error is set or a fetch is loading, the map view, the list view
\* and the statistics are not displayed, whatever the collection holds.
C12_LoadingOrErrorHidesContent ==
    (error # Null \/ loading) => ~mapShown /\ ~listShown /\ ~statsShown

C12_Witness ==
    /\ error # Null
    /\ filteredEarthquakes # <<>>
    /\ errorShown
    /\ ~mapShown /\ ~listShown

\* C13: while a failed fetch's error is set it is shown together with an
\* enabled retry action; a retry starts one new fetch with loading = true and
\* error = null; a fetch that succeeds leaves error = null, loading = false
\* and the collection equal to its batch, most recent first.
C13_ErrorOffersWorkingRetry ==
    /\ [](error # Null => (~crashed /\ errorShown /\ ENABLED ClickRetry))
    /\ [][ClickRetry => (/\ Len(requests') = Len(requests) + 1
                          /\ requests'[Len(requests')].pc = "fetch"
                          /\ loading'
                          /\ error' = Null)]_vars
    /\ [][\A i \in 1..Len(requests) :
              succeeds(i) => (/\ error' = Null
                              /\ ~loading'
                              /\ multiset(earthquakes') = multiset(requests[i].body.features)
                              /\ timeDescending(earthquakes'))]_vars

\* the first load has failed: its error is shown and the retry is enabled
C13_Witness ==
    /\ error # Null
    /\ lastUpdated = Null
    /\ errorShown
    /\ ENABLED ClickRetry

C15_Original ==
    (requests # <<>> /\ ~crashed) => ENABLED (ClickRefresh \/ ClickRetry)

\* C15 amended: the Refresh button is disabled while loading and the retry
\* action exists only while error is set; a pending fetch keeps loading = true
\* and error = null, so at most one fetch is pending in every reachable state.
C15_AtMostOneFetchPending ==
    /\ Len(requests) <= 1
    /\ requests # <<>> => (loading /\ error = Null)
    /\ requests # <<>> => ~ENABLED (ClickRefresh \/ ClickRetry)

C15_Witness ==
    /\ Len(requests) = 1
    /\ requests[1].pc = "json"
    /\ earthquakes # <<>>
    /\ lastUpdated # Null

\* C16: the selected-event slot changes only by a click on a displayed event,
\* which sets it to that event and opens the modal, and by a dismissal of the
\* modal, which sets it to null.
C16_OnlyClickAndCloseWriteSelection ==
    /\ [][selectedEarthquake' # selectedEarthquake =>
              (handleEarthquakeClick \/ handleCloseModal)]_vars
    /\ [][handleEarthquakeClick =>
              (/\ selectedEarthquake' # Null
               /\ selectedEarthquake'[1] \in elements(filteredEarthquakes)
               /\ isModalOpen')]_vars
    /\ [][handleCloseModal => (selectedEarthquake' = Null /\ ~isModalOpen')]_vars

\* an event is selected while a refresh is under way
C16_Witness ==
    /\ selectedEarthquake # Null
    /\ isModalOpen
    /\ requests # <<>>

\* C17: after a successful fetch whose batch does not contain the selected
\* event's identity, the selected-event slot is null and the modal is closed.
C17_SelectionEndsWithItsEvent ==
    [][\A i \in 1..Len(requests) :
           (/\ succeeds(i)
            /\ selectedEarthquake # Null
            /\ selectedEarthquake[1].id \notin identities(requests[i].body.features))
               => (selectedEarthquake' = Null /\ ~isModalOpen')]_vars

----------------------------------------------------------------------------
(* Properties of the derivation utilities, checked under DerivationSpec *)

\* the magnitude of the loaded event
shownMagnitude == earthquakes[1].properties.mag

\* the age of the loaded event, in milliseconds
shownAge == now - earthquakes[1].properties.time

\* count units, with the noun singular exactly when the count is 1
ago(count, unit) ==
    ToString(count) \o " " \o unit \o (IF count = 1 THEN "" ELSE "s") \o " ago"

\* C18: a magnitude m is Major iff m >= 7, Strong iff 5.5 <= m < 7, Moderate
\* iff 4 <= m < 5.5, Minor iff 2.5 <= m < 4, Micro iff m < 2.5; 6.9 is Strong
\* and 7.0 is Major.
C18_SeverityTierThresholds ==
    shownMagnitude # Null =>
        LET m == shownMagnitude[1]
            level == getMagnitudeLevel(shownMagnitude)
        IN /\ level = "Major" <=> m >= 70
           /\ level = "Strong" <=> (m >= 55 /\ m < 70)
           /\ level = "Moderate" <=> (m >= 40 /\ m < 55)
           /\ level = "Minor" <=> (m >= 25 /\ m < 40)
           /\ level = "Micro" <=> m < 25
           /\ m = 69 => level = "Strong"
           /\ m = 70 => level = "Major"

C18_Witness ==
    /\ shownMagnitude = Some(70)
    /\ getMagnitudeLevel(shownMagnitude) = "Major"
    /\ listShown

\* C19: two magnitudes have the same card color iff they have the same
\* severity label iff they have the same marker colors, and there are five
\* card colors and five marker colors.
C19_ColorsFollowSeverityTiers ==
    /\ \A other \in Magnitudes :
               /\ (getMagnitudeColor(other) = getMagnitudeColor(shownMagnitude))
                      <=> (getMagnitudeLevel(other) = getMagnitudeLevel(shownMagnitude))
               /\ (getMarkerColors(other) = getMarkerColors(shownMagnitude))
                      <=> (getMagnitudeLevel(other) = getMagnitudeLevel(shownMagnitude))
    /\ Cardinality({getMagnitudeColor(m) : m \in Magnitudes}) = 5
    /\ Cardinality({getMarkerColors(m) : m \in Magnitudes}) = 5
    /\ Cardinality({getMarkerColors(m).bg : m \in Magnitudes}) = 5

C19_Witness ==
    /\ shownMagnitude = Some(55)
    /\ mapShown
    /\ getMarkerColors(shownMagnitude).bg = "#ea580c"
    /\ getMagnitudeColor(shownMagnitude) = "text-orange-600 bg-orange-100"

\* C20: for an age d >= 0 in milliseconds, getTimeAgo gives floor(d/60000)
\* minutes if that is < 60, else floor(d/3600000) hours if that is < 24, else
\* floor(d/86400000) days, the noun singular exactly when the count is 1;
\* 90000 ms is "1 minute ago" and 7200000 ms is "2 hours ago".
C20_RelativeAge ==
    shownAge >= 0 =>
        LET d == shownAge
            text == getTimeAgo(earthquakes[1].properties.time)
        IN /\ d \div 60000 < 60 => text = ago(d \div 60000, "minute")
           /\ (d \div 60000 >= 60 /\ d \div 3600000 < 24) => text = ago(d \div 3600000, "hour")
           /\ d \div 3600000 >= 24 => text = ago(d \div 86400000, "day")
           /\ d = 90000 => text = "1 minute ago"
           /\ d = 7200000 => text = "2 hours ago"

C20_Witness ==
    /\ shownAge = 7200000
    /\ getTimeAgo(earthquakes[1].properties.time) = "2 hours ago"
    /\ listShown

\* the side of the shown event's marker, in tenths of a pixel
markerSize(magnitude) == createAdvancedMagnitudeMarker(magnitude).iconSize[1]

\* C21: the size of the marker of every magnitude is between 20px and 60px
\* and does not decrease as the magnitude grows.
C21_MarkerSizeWithinDocumentedRange ==
    (mapShown /\ shownMagnitude # Null) =>
        /\ markerSize(shownMagnitude) >= 200
        /\ markerSize(shownMagnitude) <= 600
        /\ \A other \in Magnitudes \ {Null} :
               other[1] <= shownMagnitude[1]
                   => markerSize(other) <= markerSize(shownMagnitude)

----------------------------------------------------------------------------
(* Properties of the application, checked under Spec (continued) *)

\* C22: in every state the list given to the map and list views is the
\* filter applied to the current collection, search term and minimum
\* magnitude.
C22_ViewsShowCurrentFilter ==
    filteredEarthquakes = applyFilter(earthquakes, searchTerm, minMagnitude)

C22_Witness ==
    /\ listShown
    /\ searchTerm = TOK
    /\ minMagnitude = 45
    /\ Len(earthquakes) = 2
    /\ filteredEarthquakes = <<E1>>
    /\ lastUpdated = Some(MaxNow)

\* C23 (checked under LiveSpec): every fetch that settles sets loading to
\* false, and when every started request settles, loading = true leads to
\* loading = false.
C23_LoadingEnds ==
    /\ [][\A i \in 1..Len(requests) : settles(i) => ~loading']_vars
    /\ [][(ClickRefresh \/ ClickRetry) => (loading' /\ requests' # <<>>)]_vars
    /\ [](loading => (~mounted \/ requests # <<>>))
    /\ loading ~> ~loading

C23_Witness ==
    /\ ~loading
    /\ requests = <<>>
    /\ error # Null
    /\ lastUpdated # Null

\* C24: in every state exactly one content panel is displayed (spinner,
\* error message, one of the two notices, map or list); loading and an error
\* never hold together, and the map and the list are displayed only with a
\* non-empty filtered list.
C24_ExactlyOneContentPanel ==
    /\ Cardinality(contentPanels) = 1
    /\ ~(loading /\ error # Null)
    /\ ("map" \in contentPanels \/ "list" \in contentPanels) => filteredEarthquakes # <<>>

\* C25: the detail modal is open iff the selected-event slot is non-null.
C25_ModalOpenIffSelected ==
    /\ isModalOpen <=> selectedEarthquake # Null
    /\ EarthquakeModal <=> selectedEarthquake # Null

C25_Witness ==
    /\ isModalOpen
    /\ selectedEarthquake = Some(E1)
    /\ loading
    /\ searchTerm = tokyo

\* C26: building the markers never fails: every event given to the map view
\* has a present magnitude and the map view never throws.
C26_MarkersNeverFail ==
    /\ mapShown => \A e \in elements(filteredEarthquakes) : e.properties.mag # Null
    /\ ~renderThrows
    /\ ~crashed

\* C28: the steps of a fetch (its start, its progress, its completion) leave
\* the user interface state unchanged, the user interface steps leave the
\* collection, loading, error, lastUpdated and the pending fetch unchanged, and
\* the filter, view and theme controls stay usable while a fetch is pending.
C28_FetchAndInterfaceIndependent ==
    /\ [][requests' # requests => UNCHANGED uiVars]_vars
    /\ [][hookVars' # hookVars => UNCHANGED uiVars]_vars
    /\ [][uiVars' # uiVars => UNCHANGED <<hookVars, requests>>]_vars
    /\ []((requests # <<>> /\ ~crashed) =>
             /\ ENABLED (setSearchTerm /\ searchTerm' # searchTerm)
             /\ ENABLED (setMinMagnitude /\ minMagnitude' # minMagnitude)
             /\ ENABLED (setActiveView /\ activeView' # activeView)
             /\ ENABLED toggleDarkMode)

C28_Witness ==
    /\ requests # <<>>
    /\ loading
    /\ earthquakes # <<>>
    /\ searchTerm = tokyo
    /\ minMagnitude = 30
    /\ activeView = "list"
    /\ darkMode
    /\ selectedEarthquake # Null

\* C30: lastUpdated is null until a fetch succeeds, is written exactly by the
\* successful fetches and left alone by the failed ones; a non-empty collection
\* implies a non-null lastUpdated.
C30_LastUpdatedMarksSuccess ==
    /\ [][lastUpdated' # lastUpdated => \E i \in 1..Len(requests) : succeeds(i)]_vars
    /\ [][\A i \in 1..Len(requests) : succeeds(i) => lastUpdated' = Some(now)]_vars
    /\ [][\A i \in 1..Len(requests) : fails(i) => lastUpdated' = lastUpdated]_vars
    /\ [](earthquakes # <<>> => lastUpdated # Null)
    /\ [](~mounted => lastUpdated = Null)

C30_Witness ==
    /\ lastUpdated = Some(0)
    /\ now = MaxNow
    /\ earthquakes = <<>>
    /\ error # Null
    /\ requests = <<>>

----------------------------------------------------------------------------
(* Properties of the hook under any caller, checked under HookSpec *)

\* the step settles the i-th suspended call, whichever way
Settle(i) ==
    /\ FetchResolve \/ FetchReject \/ JsonResolve \/ JsonReject
    /\ settles(i)

\* C27 as claimed: when a call that overlapped with another is the last to
\* settle, the collection and the error are its own: its batch and no error
\* if it succeeded, its error if it failed.
C27_Original ==
    [][\A i \in 1..Len(requests) :
          (settles(i) /\ Len(requests) = 1 /\ ~loading) =>
              IF succeeds(i)
              THEN /\ earthquakes' = sortedEarthquakes(requests[i].body.features)
                   /\ error' = Null
              ELSE error' # Null]_vars

\* C27: responses are applied as they settle, in any order and with no
\* cancellation: a success replaces the collection and leaves error as it is,
\* a failure sets error and leaves the collection as it is.
C27_AppliedInCompletionOrder ==
    /\ [][\A i \in 1..Len(requests) :
             succeeds(i) => /\ earthquakes' = sortedEarthquakes(requests[i].body.features)
                            /\ lastUpdated' = Some(now)
                            /\ error' = error
                            /\ ~loading']_vars
    /\ [][\A i \in 1..Len(requests) :
             fails(i) => /\ error' # Null
                         /\ earthquakes' = earthquakes
                         /\ lastUpdated' = lastUpdated
                         /\ ~loading']_vars
    /\ [][refetch => (/\ Len(requests') = Len(requests) + 1
                      /\ SubSeq(requests', 1, Len(requests)) = requests)]_vars
    /\ [](~crashed => \A i \in 1..Len(requests) : ENABLED Settle(i))

C27_Witness ==
    /\ Len(requests) = 1
    /\ ~loading
    /\ error # Null
    /\ requests[1].pc = "json"
    /\ requests[1].body.parsable
    /\ sortedEarthquakes(requests[1].body.features) # earthquakes

----------------------------------------------------------------------------
(* Properties of the filter, checked under FilterSpec (continued) *)

\* C29: raising the minimum magnitude, and extending the search term (the old
\* term is contained in the new one ignoring case), each give a subsequence of
\* the previous output.
C29_FilterMonotone ==
    /\ [](\A min \in SliderPositions :
              min >= minMagnitude =>
                  isSubsequence(applyFilter(earthquakes, searchTerm, min), filteredEarthquakes))
    /\ [](\A term \in SearchTerms :
              containsIgnoringCase(term, searchTerm) =>
                  isSubsequence(applyFilter(earthquakes, term, minMagnitude), filteredEarthquakes))
    /\ [][(minMagnitude' >= minMagnitude /\ containsIgnoringCase(searchTerm', searchTerm))
             => isSubsequence(filteredEarthquakes', filteredEarthquakes)]_vars

C29_Witness ==
    /\ searchTerm = tokyo
    /\ minMagnitude = 45
    /\ Len(earthquakes) = 3
    /\ Len(filteredEarthquakes) = 1
    /\ Len(applyFilter(earthquakes, TOK, 0)) = 2
    /\ Len(applyFilter(earthquakes, <<>>, 0)) = 3

====
